---- MODULE Spec2Model ----
(***************************************************************************)
(* State-machine model of EmbeddingIntentClassifier                        *)
(* (rasa_nlu/classifiers/embedding_intent_classifier.py).                  *)
(*                                                                         *)
(* One classifier instance `clf` is driven by a single-threaded caller     *)
(* through __init__, train, process, persist and load.  train() is split   *)
(* at its epoch boundaries (TrainBegin / TrainEpoch / TrainEnd); while a   *)
(* train() call is running no other method is entered.  An exception that  *)
(* leaves a method is recorded in `call.outcome`; the caller may catch it  *)
(* and keep using the instance.                                            *)
(*                                                                         *)
(* Spec is the life cycle of one instance, SpecTrain a construction        *)
(* followed by one train() call, SpecLoop the same with one action per     *)
(* session.run of the epoch loop, SpecHelpers the application of the       *)
(* batch-size schedule, the numpy negative samplers and the accuracy       *)
(* computation to bounded inputs.                                          *)
(*                                                                         *)
(* Python None is the empty sequence, a present value v is <<v>>.          *)
(* Feature vectors are scipy sparse matrices of one row per example (what  *)
(* _to_sparse_tensor reads); use_iou and bidirectional keep their default. *)
(***************************************************************************)
EXTENDS Integers, Sequences, FiniteSets, TLC

\* ------------------------------------------------------------------ bounds
MaxExamples == 2
MaxTrainExamples == 3
MaxEpochs == 2
MaxNumNeg == 2
MaxBatchEnd == 4
MaxScheduleEpochs == 3
MaxSamplerIntents == 3
MaxEvalRows == 2
MaxSeqLen == 3

None == <<>>
Some(v) == <<v>>
IsNone(o) == o = <<>>
Val(o) == o[1]

Max(a, b) == IF a >= b THEN a ELSE b
Min(a, b) == IF a <= b THEN a ELSE b

\* ------------------------------------------------------- class attributes
name == "intent_classifier_tensorflow_embedding"

INTENT_RANKING_LENGTH == 10

\* ----------------------------------------------------------- input spaces
Labels == {"bye", "greet", "thanks"}
SimilarityTypes == {"cosine", "inner", "euclid"}
LayerSizeLists == {<<>>, <<256>>, <<256, 128>>}
XDims == {2, 3}
YDims == {2}

\* batch_size is either a [start, end] list or a single number
BatchSizes ==
    {[is_list |-> TRUE, v |-> <<2, e>>] : e \in {MaxBatchEnd}}
    \cup {[is_list |-> FALSE, v |-> <<2>>]}

\* component_config: the defaults dict overridden by the pipeline's options
ConfigSpace ==
    [hidden_layers_sizes_a : LayerSizeLists,
     hidden_layers_sizes_b : LayerSizeLists,
     share_embedding : BOOLEAN,
     fused_lstm : BOOLEAN,
     gpu_lstm : BOOLEAN,
     transformer : BOOLEAN,
     batch_size : BatchSizes,
     epochs : 1..MaxEpochs,
     similarity_type : SimilarityTypes,
     intent_tokenization_flag : BOOLEAN,
     num_neg : {1, MaxNumNeg},
     use_neg_from_batch : BOOLEAN,
     evaluate_every_num_epochs : {0, 1, 2},
     evaluate_on_num_examples : {0, 2}]

\* configurations of the train-only specification: every architecture and
\* similarity setting with one training schedule, and every training
\* schedule with one architecture
ArchitectureUnderTest(c) ==
    /\ c.hidden_layers_sizes_a = <<256>>
    /\ c.hidden_layers_sizes_b = <<>>
    /\ ~c.share_embedding
    /\ ~c.gpu_lstm /\ ~c.transformer
    /\ c.similarity_type = "cosine"
    /\ c.intent_tokenization_flag

ScheduleUnderTest(c) ==
    /\ c.batch_size.is_list
    /\ c.epochs = 1
    /\ c.num_neg = MaxNumNeg
    /\ c.evaluate_every_num_epochs = 1
    /\ c.evaluate_on_num_examples = 2

TrainConfigs ==
    {c \in ConfigSpace :
        /\ c.use_neg_from_batch
        /\ (ArchitectureUnderTest(c) \/ ScheduleUnderTest(c))}

\* configurations of the life-cycle specification: architecture flags,
\* supported similarity type, intent tokenization, evaluation on/off and
\* epoch count vary
Configs ==
    {c \in ConfigSpace :
        /\ c.hidden_layers_sizes_a = <<256>>
        /\ c.hidden_layers_sizes_b = <<>>
        /\ ~c.share_embedding
        /\ c.similarity_type \in {"cosine", "inner"}
        /\ c.batch_size.is_list
        /\ c.num_neg = MaxNumNeg
        /\ c.use_neg_from_batch
        /\ c.evaluate_every_num_epochs = 1}

\* ------------------------------------------------------------ __init__
\* a check that only compares the two lists when both have layers
SharedSizesMismatch_nonempty(config) ==
    config.share_embedding
    /\ Len(config.hidden_layers_sizes_a) > 0
    /\ Len(config.hidden_layers_sizes_b) > 0
    /\ config.hidden_layers_sizes_a # config.hidden_layers_sizes_b

\* lines 184-187: shared embeddings need equal hidden layer size lists
SharedSizesMismatch(config) ==
    config.share_embedding
    /\ config.hidden_layers_sizes_a # config.hidden_layers_sizes_b

\* a pairwise test that misses the gpu_lstm/transformer pair
ArchFlagsConflict_two_pairs(config) ==
    \/ (config.gpu_lstm /\ config.fused_lstm)
    \/ (config.transformer /\ config.fused_lstm)

\* line 193: pairwise test of the three architecture flags
ArchFlagsConflict(config) ==
    \/ (config.gpu_lstm /\ config.fused_lstm)
    \/ (config.transformer /\ config.fused_lstm)
    \/ (config.gpu_lstm /\ config.transformer)

\* lines 196-197, 199-200: any(sizes[0] != size for size in sizes)
\* (the generator never evaluates sizes[0] when sizes is empty)
SizesDiffer(sizes) ==
    \E i \in 1..Len(sizes) : sizes[1] # sizes[i]

\* lines 195-201
GpuLayerSizesDiffer(config) ==
    (config.gpu_lstm \/ config.transformer)
    /\ (SizesDiffer(config.hidden_layers_sizes_a)
        \/ SizesDiffer(config.hidden_layers_sizes_b))

\* _load_nn_architecture_params: the exception it raises, or "none"
load_nn_architecture_params(config) ==
    IF SharedSizesMismatch(config) THEN "ValueError"
    ELSE IF ArchFlagsConflict(config) THEN "ValueError"
    ELSE IF GpuLayerSizesDiffer(config) THEN "ValueError"
    ELSE "none"

\* _load_embedding_params stores similarity_type, num_neg, ... unchecked
load_embedding_params(config) == "none"

\* _load_flag_if_tokenize_intents: intent_split_symbol keeps its default '_'
tokenize_intents_flag(config) == config.intent_tokenization_flag

\* _load_visual_params: the two fields it derives
visual_evaluate_every_num_epochs(config) ==
    IF config.evaluate_every_num_epochs < 1 THEN config.epochs
    ELSE config.evaluate_every_num_epochs

visual_evaluate_on_num_examples(config) ==
    IF config.gpu_lstm THEN 0 ELSE config.evaluate_on_num_examples

\* _load_params: first exception raised by the helpers, in call order
load_params(config) ==
    IF load_nn_architecture_params(config) # "none"
    THEN load_nn_architecture_params(config)
    ELSE load_embedding_params(config)


\* ------------------------------------------------------------- tensors
\* a graph tensor: its name and the static size of its last dimension
Tensor(nm, rank, last_dim) == [name |-> nm, rank |-> rank, last_dim |-> last_dim]

\* ------------------------------------------------------------ instance
\* __init__ (lines 131-176) after _check_tensorflow and _load_params passed
NewInstance(config, inv_intent_dict, encoded_all_intents, all_intents_embed_values, session, graph, message_placeholder, intent_placeholder, similarity_op, all_intents_embed_in, sim_all, word_embed, intent_embed) ==
    [component_config |-> config,
     num_neg |-> config.num_neg,
     intent_tokenization_flag |-> tokenize_intents_flag(config),
     evaluate_every_num_epochs |-> visual_evaluate_every_num_epochs(config),
     evaluate_on_num_examples |-> visual_evaluate_on_num_examples(config),
     inv_intent_dict |-> inv_intent_dict,
     encoded_all_intents |-> encoded_all_intents,
     all_intents_embed_values |-> all_intents_embed_values,
     session |-> session,
     graph |-> graph,
     iterator |-> None,
     a_in |-> message_placeholder,
     b_in |-> intent_placeholder,
     sim_op |-> similarity_op,
     all_intents_embed_in |-> all_intents_embed_in,
     sim_all |-> sim_all,
     sequence |-> IF IsNone(message_placeholder) THEN None
                  ELSE Some(Val(message_placeholder).rank = 3),
     word_embed |-> word_embed,
     intent_embed |-> intent_embed]

\* cls(component_config): every optional argument left at None
FreshInstance(config) ==
    NewInstance(config, None, None, None, None, None,
                None, None, None, None, None, None, None)

\* ------------------------------------------------------------ messages
Float(x) == [kind |-> "float", v |-> x]
NullIntent == [name |-> None, confidence |-> Float(0)]

\* a Message with text_features and no output field set yet
FreshMessage(X) ==
    [text_features |-> X, intent |-> None, intent_ranking |-> None]

\* the message after message.set("intent", ...) and message.set("intent_ranking", ...)
MessageSet(X, intent, intent_ranking) ==
    [text_features |-> X, intent |-> Some(intent),
     intent_ranking |-> Some(intent_ranking)]

FeatureVectors == [1..2 -> 0..1]
\* X.any()
AnyNonZero(X) == \E i \in DOMAIN X : X[i] # 0

\* --------------------------------------------------------------- state
VARIABLES
    clf,        \* the classifier instance the caller holds, None before __init__
    trainer,    \* locals of the running (or last) train() call
    call,       \* the last method call: its name, argument, outcome and its
                \* return value (for process: the message as process left it)
    disk        \* files of the model directory: file name -> content, None if absent

vars == <<clf, trainer, call, disk>>

\* self.name + ".ckpt" and the four self.name + "_<table>.pkl" files
CheckpointFile == "intent_classifier_tensorflow_embedding.ckpt"
PlaceholderDimsFile == "intent_classifier_tensorflow_embedding_placeholder_dims.pkl"
InvIntentDictFile == "intent_classifier_tensorflow_embedding_inv_intent_dict.pkl"
EncodedAllIntentsFile == "intent_classifier_tensorflow_embedding_encoded_all_intents.pkl"
AllIntentsEmbedValuesFile == "intent_classifier_tensorflow_embedding_all_intents_embed_values.pkl"

AuxFileNames ==
    {PlaceholderDimsFile, InvIntentDictFile, EncodedAllIntentsFile,
     AllIntentsEmbedValuesFile}

FileNames == {CheckpointFile} \cup AuxFileNames

IdleTrainer ==
    [running |-> FALSE, ep |-> 0, n_examples |-> 0,
     batches |-> <<>>, evals |-> {}, last_loss |-> None]

Call(op, arg, outcome, ret) ==
    [op |-> op, arg |-> arg, outcome |-> outcome, ret |-> ret]

Init ==
    /\ clf = None
    /\ trainer = IdleTrainer
    /\ call = Call("none", None, "returned", None)
    /\ disk = [f \in FileNames |-> None]

\* EmbeddingIntentClassifier(component_config)
ConstructFrom(configs) ==
    /\ call.op = "none"
    /\ \E config \in configs :
          IF load_params(config) = "none"
          THEN /\ clf' = Some(FreshInstance(config))
               /\ call' = Call("__init__", Some(config), "returned", None)
          ELSE /\ clf' = clf
               /\ call' = Call("__init__", Some(config), load_params(config), None)
    /\ UNCHANGED <<trainer, disk>>


\* ------------------------------------------------ training data helpers
\* an intent example carries its intent label, a text_features row of width
\* xdim and an intent_features row of width ydim
TrainingSetsOver(labels, max_examples) ==
    [labels : UNION {[1..k -> labels] : k \in 0..max_examples},
     xdim : XDims, ydim : YDims]

\* order of the labels under Python's sorted()
LabelRank == [l \in Labels |->
                 CASE l = "bye" -> 1 [] l = "greet" -> 2 [] l = "thanks" -> 3]

\* intent_features of an example: the bag of words of its intent label
IntentFeatures(label, ydim) ==
    [j \in 0..(ydim - 1) |->
        IF (LabelRank[label] \div (2 ^ j)) % 2 = 1 THEN 1 ELSE 0]

TrainingSets == TrainingSetsOver({"bye", "greet"}, MaxExamples)

DistinctIntents(labels) == {labels[i] : i \in DOMAIN labels}

\* an intent dictionary that numbers the labels in reverse sorted order
create_intent_dict_reversed(labels) ==
    [l \in DistinctIntents(labels) |->
        Cardinality({m \in DistinctIntents(labels) : LabelRank[m] > LabelRank[l]})]

\* _create_intent_dict: {intent: idx for idx, intent in enumerate(sorted(distinct))}
create_intent_dict(labels) ==
    [l \in DistinctIntents(labels) |->
        Cardinality({m \in DistinctIntents(labels) : LabelRank[m] < LabelRank[l]})]

\* train line 879: {v: k for k, v in intent_dict.items()}
InvertDict(intent_dict) ==
    [idx \in {intent_dict[l] : l \in DOMAIN intent_dict} |->
        CHOOSE l \in DOMAIN intent_dict : intent_dict[l] = idx]

\* _create_encoded_intents: row idx is the intent_features of the first
\* example of the intent with id idx, or np.eye(n) without tokenization
create_encoded_intents(self, intent_dict, td) ==
    LET n == Cardinality(DOMAIN intent_dict)
    IN IF self.intent_tokenization_flag
       THEN [i \in 0..(n - 1) |->
               IntentFeatures(InvertDict(intent_dict)[i], td.ydim)]
       ELSE [i \in 0..(n - 1) |-> [j \in 0..(n - 1) |-> IF i = j THEN 1 ELSE 0]]

\* _prepare_data_for_training: the width Y[0].shape[-1] of the intent rows
YWidth(self, td) ==
    IF self.intent_tokenization_flag THEN td.ydim
    ELSE Cardinality(DistinctIntents(td.labels))

\* _to_sparse_tensor(Y, ...) at line 912 calls tocoo() on every row of Y; the
\* rows taken from np.eye are dense arrays
to_sparse_tensor_error(self) ==
    IF self.intent_tokenization_flag THEN "none" ELSE "AttributeError"

\* --------------------------------------------------------- graph helpers
CollectionNames ==
    {"message_placeholder", "intent_placeholder", "similarity_op",
     "all_intents_embed_in", "sim_all", "word_embed", "intent_embed"}

embed_dim == 20

\* _create_tf_rnn_embed lines 408-540: the branch of the if/elif chain taken
rnn_embed_strategy(config) ==
    IF config.fused_lstm THEN "fused"
    ELSE IF config.gpu_lstm THEN "gpu"
    ELSE IF config.transformer THEN "attention"
    ELSE "custom"

\* _create_tf_rnn_embed: the gpu and attention branches read layer_sizes[0]
rnn_embed_error(config, layer_sizes) ==
    IF rnn_embed_strategy(config) \in {"gpu", "attention"} /\ Len(layer_sizes) = 0
    THEN "IndexError"
    ELSE "none"

\* a similarity op that falls through for an unknown similarity_type
tf_sim_error_unchecked(config) == "none"

\* _tf_sim lines 616-630
tf_sim_error(config) ==
    IF config.similarity_type \in {"cosine", "inner"} THEN "none"
    ELSE "ValueError"

\* lines 919-926, 970: make_initializer(val_dataset) with val_dataset None
val_init_error(self) ==
    IF self.evaluate_on_num_examples # 0 THEN "none" ELSE "AttributeError"

\* tf.Graph() at line 903 with the encoders the graph construction adds
EmptyGraph ==
    [encoder_a |-> None, encoder_b |-> None,
     collections |-> [c \in CollectionNames |-> <<>>]]

\* a schedule that divides by the epoch count instead of (epochs - 1)
linearly_increasing_batch_size_div_epochs(self, epoch) ==
    LET bs == self.component_config.batch_size
        epochs == self.component_config.epochs
    IN IF ~bs.is_list THEN bs.v[1]
       ELSE IF epochs > 1
            THEN LET batch_size ==
                         bs.v[1] + ((epoch * (bs.v[2] - bs.v[1])) \div epochs)
                 IN IF batch_size % 2 = 0 THEN batch_size ELSE batch_size + 1
            ELSE bs.v[1]

\* a schedule that returns the interpolated value without rounding it to even
linearly_increasing_batch_size_unrounded(self, epoch) ==
    LET bs == self.component_config.batch_size
        epochs == self.component_config.epochs
    IN IF ~bs.is_list THEN bs.v[1]
       ELSE IF epochs > 1
            THEN bs.v[1] + ((epoch * (bs.v[2] - bs.v[1])) \div (epochs - 1))
            ELSE bs.v[1]

\* a schedule whose single-epoch branch returns the end value
linearly_increasing_batch_size_single_end(self, epoch) ==
    LET bs == self.component_config.batch_size
        epochs == self.component_config.epochs
    IN IF ~bs.is_list THEN bs.v[1]
       ELSE IF epochs > 1
            THEN LET batch_size ==
                         bs.v[1] + ((epoch * (bs.v[2] - bs.v[1])) \div (epochs - 1))
                 IN IF batch_size % 2 = 0 THEN batch_size ELSE batch_size + 1
            ELSE bs.v[2]

\* _linearly_increasing_batch_size (lines 713-730)
linearly_increasing_batch_size(self, epoch) ==
    LET bs == self.component_config.batch_size
        epochs == self.component_config.epochs
    IN IF ~bs.is_list THEN bs.v[1]
       ELSE IF epochs > 1
            THEN LET batch_size ==
                         bs.v[1] + ((epoch * (bs.v[2] - bs.v[1])) \div (epochs - 1))
                 IN IF batch_size % 2 = 0 THEN batch_size ELSE batch_size + 1
            ELSE bs.v[1]

\* Dataset.batch(batch_size, drop_remainder): number of batches of one pass
BatchesPerEpoch(n_examples, batch_size, drop_remainder) ==
    IF drop_remainder THEN n_examples \div batch_size
    ELSE (n_examples + batch_size - 1) \div batch_size

\* a cadence test that forgets the first epoch
EvaluateAt_not_first(self, ep) ==
    \/ (ep + 1) % self.evaluate_every_num_epochs = 0
    \/ (ep + 1) = self.component_config.epochs

\* lines 1028-1030
EvaluateAt(self, ep) ==
    \/ ep = 0
    \/ (ep + 1) % self.evaluate_every_num_epochs = 0
    \/ (ep + 1) = self.component_config.epochs

\* ------------------------------------------------------------- train()
\* an intent-count test that lets a single intent through
TooFewIntents_lt1(intent_dict) == Cardinality(DOMAIN intent_dict) < 1

\* line 873: len(intent_dict) < 2
TooFewIntents(intent_dict) == Cardinality(DOMAIN intent_dict) < 2

\* the stages of train() up to the creation of the session (lines 879-975)
TrainStage1(self, td) ==
    [self EXCEPT
        !.inv_intent_dict = Some(InvertDict(create_intent_dict(td.labels))),
        !.encoded_all_intents =
            Some(create_encoded_intents(self, create_intent_dict(td.labels), td)),
        !.sequence = Some(FALSE)]

\* lines 888-892: X[0].shape[-1] != Y[0].shape[-1]
SharedFeaturesMismatch(self, td) ==
    self.component_config.share_embedding
    /\ td.xdim # YWidth(self, td)

\* a clamp to the number of intents instead of one less
ClampNumNeg_to_count(self) ==
    [self EXCEPT !.num_neg = Min(@, Cardinality(DOMAIN Val(self.encoded_all_intents)))]

\* lines 900-901
ClampNumNeg(self) ==
    [self EXCEPT !.num_neg = Min(@, Cardinality(DOMAIN Val(self.encoded_all_intents)) - 1)]

\* line 903
TrainStageGraph(self) ==
    [self EXCEPT !.graph = Some(EmptyGraph)]

\* lines 928-939
TrainStageInputs(self, td) ==
    [self EXCEPT
        !.iterator = Some("iterator"),
        !.a_in = Some(Tensor("a_in", 3, td.xdim)),
        !.b_in = Some(Tensor("b_in", 3, YWidth(self, td)))]

\* line 943
TrainStageEmbedA(self) ==
    [self EXCEPT
        !.graph = Some([Val(@) EXCEPT !.encoder_a = Some(rnn_embed_strategy(self.component_config))]),
        !.word_embed = Some(Tensor("word_embed", 2, embed_dim))]

\* line 944
TrainStageEmbedB(self) ==
    [self EXCEPT
        !.graph = Some([Val(@) EXCEPT !.encoder_b = Some(rnn_embed_strategy(self.component_config))]),
        !.intent_embed = Some(Tensor("intent_embed", 2, embed_dim))]

\* lines 961-964
TrainStageSim(self) ==
    [self EXCEPT !.sim_op = Some(Tensor("sim_op", 2, 0))]

\* line 975
TrainStageSession(self) ==
    [self EXCEPT !.session = Some([steps |-> 0])]

\* state of the instance and exception when train() stops before its epoch
\* loop, or outcome "running" when it enters _train_tf_dataset
TrainSetup(self, td) ==
    LET s1 == TrainStage1(self, td)
        s2 == ClampNumNeg(s1)
        s2g == TrainStageGraph(s2)
        s3 == TrainStageInputs(s2g, td)
        s4 == TrainStageEmbedA(s3)
        s5 == TrainStageEmbedB(s4)
        s6 == TrainStageSim(s5)
        s7 == TrainStageSession(s6)
        cfg == self.component_config
    IN IF TooFewIntents(create_intent_dict(td.labels))
       THEN [self |-> self, outcome |-> "returned"]
       ELSE IF SharedFeaturesMismatch(self, td)
       THEN [self |-> s1, outcome |-> "ValueError"]
       ELSE IF to_sparse_tensor_error(self) # "none"
       THEN [self |-> s2g, outcome |-> to_sparse_tensor_error(self)]
       ELSE IF rnn_embed_error(cfg, cfg.hidden_layers_sizes_a) # "none"
       THEN [self |-> s3, outcome |-> rnn_embed_error(cfg, cfg.hidden_layers_sizes_a)]
       ELSE IF rnn_embed_error(cfg, cfg.hidden_layers_sizes_b) # "none"
       THEN [self |-> s4, outcome |-> rnn_embed_error(cfg, cfg.hidden_layers_sizes_b)]
       ELSE IF tf_sim_error(cfg) # "none"
       THEN [self |-> s5, outcome |-> tf_sim_error(cfg)]
       ELSE IF val_init_error(self) # "none"
       THEN [self |-> s6, outcome |-> val_init_error(self)]
       ELSE [self |-> s7, outcome |-> "running"]

\* train(training_data) from its entry to the start of the epoch loop
TrainBegin(td) ==
    /\ ~IsNone(clf)
    /\ ~trainer.running
    /\ LET r == TrainSetup(Val(clf), td)
       IN /\ clf' = Some(r.self)
          /\ call' = Call("train", Some(td), r.outcome, None)
          /\ trainer' = [IdleTrainer EXCEPT
                            !.running = (r.outcome = "running"),
                            !.n_examples = Len(td.labels)]
    /\ UNCHANGED disk

\* one iteration of the epoch loop of _train_tf_dataset (lines 1008-1041)
TrainEpoch ==
    /\ trainer.running
    /\ trainer.ep < Val(clf).component_config.epochs
    /\ LET self == Val(clf)
           ep == trainer.ep
           batch_size == linearly_increasing_batch_size(self, ep)
           batches_per_epoch ==
               BatchesPerEpoch(trainer.n_examples, batch_size,
                               self.component_config.fused_lstm)
           evaluate == self.evaluate_on_num_examples # 0 /\ EvaluateAt(self, ep)
       IN /\ clf' = Some([self EXCEPT
                     !.session = Some([steps |-> Val(@).steps + batches_per_epoch])])
          /\ IF batches_per_epoch = 0
             THEN /\ trainer' = [trainer EXCEPT !.running = FALSE]
                  /\ call' = [call EXCEPT !.outcome = "ZeroDivisionError"]
             ELSE /\ trainer' = [trainer EXCEPT
                        !.ep = ep + 1,
                        !.batches = Append(@, [batch_size |-> batch_size,
                                               n_batches |-> batches_per_epoch]),
                        !.evals = IF evaluate THEN @ \cup {ep} ELSE @,
                        !.last_loss = IF evaluate THEN Some(ep) ELSE @]
                  /\ call' = call
    /\ UNCHANGED disk

\* train() after _train_tf_dataset returned: exit() at line 980
TrainEnd ==
    /\ trainer.running
    /\ trainer.ep = Val(clf).component_config.epochs
    /\ trainer' = [trainer EXCEPT !.running = FALSE]
    /\ call' = [call EXCEPT !.outcome = "SystemExit"]
    /\ UNCHANGED <<clf, disk>>


\* ----------------------------------------------------------- process()
Scores == -1..1

\* message_sim.argsort()[::-1]: ids by decreasing similarity; among equal
\* similarities the reversed stable order puts the larger id first
ArgsortReversed(sims) ==
    LET ids == DOMAIN sims
        pos(i) == 1 + Cardinality({j \in ids : \/ sims[j] > sims[i]
                                               \/ (sims[j] = sims[i] /\ j > i)})
    IN [p \in 1..Cardinality(ids) |-> CHOOSE i \in ids : pos(i) = p]

\* lines 1119-1127: sort descending, then clip (cosine) or softmax (inner);
\* exp(s) / sum(exp) is kept symbolic as the score and the multiset it is
\* normalised over
Confidences(similarity_type, sims) ==
    LET order == ArgsortReversed(sims)
    IN [p \in DOMAIN order |->
          IF similarity_type = "cosine" THEN Float(Max(0, sims[order[p]]))
          ELSE IF similarity_type = "inner"
               THEN [kind |-> "softmax", v |-> sims[order[p]],
                     over |-> [q \in DOMAIN order |-> sims[order[q]]]]
               ELSE Float(sims[order[p]])]

\* lines 1146-1150: a one-row sparse matrix goes through _toarray, a vector
\* through np.expand_dims; either way the array fed has shape (1, width)
FeedShape(X) == <<1, Len(X)>>

\* session.run checks a fed value against the static shape (?, ..., last_dim)
\* of the tensor it is fed to: equal rank, equal last dimension
feed_shape_error(tensor, shape) ==
    \/ Len(shape) # tensor.rank
    \/ shape[Len(shape)] # tensor.last_dim

\* session.run(self.sim_all, {self.a_in: X, self.all_intents_embed_in:
\* self.all_intents_embed_values}) in _calculate_message_sim_all: the
\* session rejects a None fetch, a None feed key, a None feed value and a fed
\* array whose shape does not fit the tensor it is fed to.  The embedding
\* table is kept as the shape of its array, (1, intents, embed_dim) when
\* _create_all_intents_embed built it (line 1064)
sim_all_error(self, X) ==
    IF \/ IsNone(self.sim_all)
       \/ IsNone(self.all_intents_embed_in)
       \/ IsNone(self.a_in)
       \/ IsNone(self.all_intents_embed_values)
    THEN "session.run error"
    ELSE IF feed_shape_error(Val(self.a_in), FeedShape(X))
    THEN "session.run error"
    ELSE IF feed_shape_error(Val(self.all_intents_embed_in),
                             Val(self.all_intents_embed_values).shape)
    THEN "session.run error"
    ELSE "none"

\* a guard that looks at the graph instead of the session
process_untrained_graph(self) == IsNone(self.graph)

\* line 1139: self.session is None
process_untrained(self) == IsNone(self.session)

\* lines 1162-1170
RankedOutput(self, X, intent_ids, message_sim) ==
    IF AnyNonZero(X) /\ Len(intent_ids) > 0
    THEN [intent |-> [name |-> Some(Val(self.inv_intent_dict)[intent_ids[1]]),
                      confidence |-> message_sim[1]],
          intent_ranking |->
              [p \in 1..Min(Len(intent_ids), INTENT_RANKING_LENGTH) |->
                  [name |-> Some(Val(self.inv_intent_dict)[intent_ids[p]]),
                   confidence |-> message_sim[p]]]]
    ELSE [intent |-> NullIntent, intent_ranking |-> <<>>]

\* process(message) for a fresh message with text_features X
Process(X) ==
    /\ ~IsNone(clf)
    /\ ~trainer.running
    /\ LET self == Val(clf)
       IN IF process_untrained(self)
          THEN call' = Call("process", Some(X), "returned",
                            Some(MessageSet(X, NullIntent, <<>>)))
          ELSE IF sim_all_error(self, X) # "none"
          THEN call' = Call("process", Some(X), sim_all_error(self, X),
                            Some(FreshMessage(X)))
          ELSE \E sims \in [0..(Val(self.all_intents_embed_values).shape[2] - 1) -> Scores] :
                 LET out == RankedOutput(self, X, ArgsortReversed(sims),
                               Confidences(self.component_config.similarity_type, sims))
                 IN call' = Call("process", Some(X), "returned",
                                 Some(MessageSet(X, out.intent, out.intent_ranking)))
    /\ UNCHANGED <<clf, trainer, disk>>

\* ----------------------------------------------------------- persist()
\* lines 1195-1219: clear_collection + add_to_collection for each tensor
PersistCollections(self) ==
    [c \in CollectionNames |->
        CASE c = "message_placeholder" -> <<self.a_in>>
          [] c = "intent_placeholder" -> <<self.b_in>>
          [] c = "similarity_op" -> <<self.sim_op>>
          [] c = "all_intents_embed_in" -> <<self.all_intents_embed_in>>
          [] c = "sim_all" -> <<self.sim_all>>
          [] c = "word_embed" -> <<self.word_embed>>
          [] c = "intent_embed" -> <<self.intent_embed>>]

\* the graph after lines 1193-1219
PersistGraph(self) ==
    IF self.component_config.gpu_lstm THEN Val(self.graph)
    ELSE [Val(self.graph) EXCEPT !.collections = PersistCollections(self)]

\* saver.save: the variables of the session and the meta graph; a collection
\* holding a value that is not a graph element is left out of the meta graph
ExportCollection(items) ==
    IF \E i \in DOMAIN items : IsNone(items[i]) THEN <<>>
    ELSE [i \in DOMAIN items |-> Val(items[i])]

Checkpoint(self, graph) ==
    [variables |-> Val(self.session),
     encoder_a |-> graph.encoder_a,
     encoder_b |-> graph.encoder_b,
     collections |-> [c \in CollectionNames |-> ExportCollection(graph.collections[c])]]

\* line 1181: self.session is None
persist_untrained(self) == IsNone(self.session)

\* a persist() that forgets the all-intents embedding table
PersistFiles_no_embed_values(self, graph) ==
    [f \in FileNames |->
        CASE f = CheckpointFile -> Some(Checkpoint(self, graph))
          [] f = PlaceholderDimsFile ->
                Some([a_in |-> Val(self.a_in).last_dim, b_in |-> Val(self.b_in).last_dim])
          [] f = InvIntentDictFile -> Some(self.inv_intent_dict)
          [] f = EncodedAllIntentsFile -> Some(self.encoded_all_intents)
          [] f = AllIntentsEmbedValuesFile -> None]

\* lines 1221-1241: the files persist() writes
PersistFiles(self, graph) ==
    [f \in FileNames |->
        CASE f = CheckpointFile ->
                Some(Checkpoint(self, graph))
          [] f = PlaceholderDimsFile ->
                Some([a_in |-> Val(self.a_in).last_dim, b_in |-> Val(self.b_in).last_dim])
          [] f = InvIntentDictFile ->
                Some(self.inv_intent_dict)
          [] f = EncodedAllIntentsFile ->
                Some(self.encoded_all_intents)
          [] f = AllIntentsEmbedValuesFile ->
                Some(self.all_intents_embed_values)]

\* persist(model_dir)
Persist ==
    /\ ~IsNone(clf)
    /\ ~trainer.running
    /\ LET self == Val(clf)
       IN IF persist_untrained(self)
          THEN /\ call' = Call("persist", None, "returned",
                               Some([classifier_file |-> None]))
               /\ UNCHANGED <<clf, disk>>
          ELSE /\ clf' = Some([self EXCEPT !.graph = Some(PersistGraph(self))])
               /\ disk' = PersistFiles(self, PersistGraph(self))
               /\ call' = Call("persist", None, "returned",
                               Some([classifier_file |-> Some(CheckpointFile)]))
    /\ UNCHANGED trainer


\* -------------------------------------------------------------- load()
\* meta.get("classifier_file"): the key may be absent, null or a file name
ClassifierFileRefs == {"absent", "null", CheckpointFile}

meta_get_classifier_file(ref) ==
    IF ref \in {"absent", "null"} THEN None ELSE Some(ref)

ModelDirs == {None, Some("model_dir")}

\* _create_tf_gpu_predict_embed lines 1259-1274: layer_sizes[0] is read
\* inside the single_cell lambda, called once per layer, so an empty list
\* builds no cell and MultiRNNCell([]) (or the bidirectional stack) raises
\* ValueError
gpu_predict_embed_error(layer_sizes) ==
    IF Len(layer_sizes) = 0 THEN "ValueError" ELSE "none"

\* _tf_gpu_sim lines 1295-1309
tf_gpu_sim_error(meta) ==
    IF meta.similarity_type \in {"cosine", "inner"} THEN "none" ELSE "ValueError"

\* lines 1328-1355: the prediction graph rebuilt from the metadata
LoadGpuGraph(meta, files) ==
    IF IsNone(files[PlaceholderDimsFile]) THEN [outcome |-> "IOError"]
    ELSE IF gpu_predict_embed_error(meta.hidden_layers_sizes_a) # "none"
    THEN [outcome |-> gpu_predict_embed_error(meta.hidden_layers_sizes_a)]
    ELSE IF gpu_predict_embed_error(meta.hidden_layers_sizes_b) # "none"
    THEN [outcome |-> gpu_predict_embed_error(meta.hidden_layers_sizes_b)]
    ELSE IF tf_gpu_sim_error(meta) # "none"
    THEN [outcome |-> tf_gpu_sim_error(meta)]
    ELSE [outcome |-> "none",
          graph |-> [EmptyGraph EXCEPT !.encoder_a = Some("gpu_predict"),
                                       !.encoder_b = Some("gpu_predict")],
          a_in |-> Tensor("a", 3, Val(files[PlaceholderDimsFile]).a_in),
          b_in |-> Tensor("b", 4, Val(files[PlaceholderDimsFile]).b_in),
          sim_op |-> Tensor("sim_op", 2, 0),
          all_intents_embed_in |-> Tensor("all_intents_embed", 3, embed_dim),
          sim_all |-> Tensor("sim_all", 2, 0),
          word_embed |-> Tensor("word_embed", 2, embed_dim),
          intent_embed |-> Tensor("intent_embed", 3, embed_dim)]

\* lines 1358-1369: import_meta_graph and tf.get_collection(...)[0]
LoadMetaGraph(files) ==
    IF IsNone(files[CheckpointFile]) THEN [outcome |-> "IOError"]
    ELSE LET ckpt == Val(files[CheckpointFile])
         IN IF \E c \in CollectionNames : Len(ckpt.collections[c]) = 0
            THEN [outcome |-> "IndexError"]
            ELSE [outcome |-> "none",
                  graph |-> [encoder_a |-> ckpt.encoder_a,
                             encoder_b |-> ckpt.encoder_b,
                             collections |-> [c \in CollectionNames |->
                                 [i \in DOMAIN ckpt.collections[c] |->
                                     Some(ckpt.collections[c][i])]]],
                  a_in |-> ckpt.collections["message_placeholder"][1],
                  b_in |-> ckpt.collections["intent_placeholder"][1],
                  sim_op |-> ckpt.collections["similarity_op"][1],
                  all_intents_embed_in |-> ckpt.collections["all_intents_embed_in"][1],
                  sim_all |-> ckpt.collections["sim_all"][1],
                  word_embed |-> ckpt.collections["word_embed"][1],
                  intent_embed |-> ckpt.collections["intent_embed"][1]]

\* lines 1325-1400: the branch of load() taken with a checkpoint reference;
\* saver.restore (line 1371) raises ValueError for a checkpoint that is not
\* there, which only the rebuilt gpu graph can reach
LoadCheckpointed(meta, files) ==
    LET g == IF meta.gpu_lstm THEN LoadGpuGraph(meta, files)
             ELSE LoadMetaGraph(files)
    IN IF g.outcome # "none" THEN [outcome |-> g.outcome]
       ELSE IF IsNone(files[CheckpointFile]) THEN [outcome |-> "ValueError"]
       ELSE IF \/ IsNone(files[InvIntentDictFile])
               \/ IsNone(files[EncodedAllIntentsFile])
               \/ IsNone(files[AllIntentsEmbedValuesFile])
       THEN [outcome |-> "IOError"]
       ELSE IF load_params(meta) # "none" THEN [outcome |-> load_params(meta)]
       ELSE [outcome |-> "returned",
             self |-> NewInstance(meta,
                         Val(files[InvIntentDictFile]),
                         Val(files[EncodedAllIntentsFile]),
                         Val(files[AllIntentsEmbedValuesFile]),
                         Some(Val(files[CheckpointFile]).variables),
                         Some(g.graph),
                         Some(g.a_in), Some(g.b_in), Some(g.sim_op),
                         Some(g.all_intents_embed_in), Some(g.sim_all),
                         Some(g.word_embed), Some(g.intent_embed))]

\* lines 1402-1406: os.path.abspath(model_dir) formats the warning
LoadUntrained(model_dir, meta) ==
    IF IsNone(model_dir) THEN [outcome |-> "TypeError"]
    ELSE IF load_params(meta) # "none" THEN [outcome |-> load_params(meta)]
    ELSE [outcome |-> "returned", self |-> FreshInstance(meta)]

\* load(model_dir, model_metadata); the metadata is the component_config of
\* the pipeline's classifier together with the classifier_file entry
Load(model_dir, ref) ==
    /\ ~IsNone(clf)
    /\ ~trainer.running
    /\ LET meta == Val(clf).component_config
           r == IF ~IsNone(model_dir) /\ ~IsNone(meta_get_classifier_file(ref))
                THEN LoadCheckpointed(meta, disk)
                ELSE LoadUntrained(model_dir, meta)
           round_trip == /\ call.op = "persist"
                         /\ call.outcome = "returned"
                         /\ ~IsNone(model_dir)
                         /\ meta_get_classifier_file(ref) = Val(call.ret).classifier_file
       IN /\ clf' = IF r.outcome = "returned" THEN Some(r.self) ELSE clf
          /\ call' = Call("load",
                          Some([model_dir |-> model_dir, classifier_file |-> ref,
                                round_trip |-> round_trip, saved |-> Val(clf)]),
                          r.outcome, None)
    /\ UNCHANGED <<trainer, disk>>

\* ------------------------------------------------------- specification
\* life cycle of one classifier: construction, then any sequence of train,
\* process, persist and load calls
Construct == ConstructFrom(Configs)

Next ==
    \/ Construct
    \/ \E td \in TrainingSets : TrainBegin(td)
    \/ TrainEpoch
    \/ TrainEnd
    \/ \E X \in FeatureVectors : Process(X)
    \/ Persist
    \/ \E model_dir \in ModelDirs, ref \in ClassifierFileRefs : Load(model_dir, ref)

Spec == Init /\ [][Next]_vars

\* construction followed by one train() call on the fresh classifier
ConstructAny == ConstructFrom(TrainConfigs)

TrainFresh ==
    /\ call.op = "__init__"
    /\ \E td \in TrainingSetsOver(Labels, MaxTrainExamples) : TrainBegin(td)

NextTrain ==
    \/ ConstructAny
    \/ TrainFresh
    \/ TrainEpoch
    \/ TrainEnd

SpecTrain == Init /\ [][NextTrain]_vars


\* num_neg draws with replacement for every row b from candidates[b], as
\* np.random.choice(negative_indexes, size=num_neg) and tf.random.categorical
\* make them: the possible results, none when some row has no candidate
RECURSIVE RowChoices(_, _, _)
RowChoices(candidates, num_neg, rows) ==
    IF rows = {} THEN {<<>>}
    ELSE LET r == CHOOSE b \in rows : TRUE
         IN {[b \in rows |-> IF b = r THEN x ELSE f[b]] :
                x \in [1..num_neg -> candidates[r]],
                f \in RowChoices(candidates, num_neg, rows \ {r})}

RandomChoices(candidates, num_neg) ==
    RowChoices(candidates, num_neg, DOMAIN candidates)

\* --------------------------------------------------- epoch loop in detail
\* the loop of _train_tf_dataset with one action per session.run: the
\* iterator is initialised (EpochBegin), batches are drawn from the shuffled
\* data set until it is exhausted (TrainBatch), then the epoch is closed
\* (EpochEnd).  Rows of a batch and examples are numbered from 1.
LoopArchitectures ==
    {c \in ConfigSpace :
        /\ c.epochs = 1
        /\ c.num_neg = MaxNumNeg
        /\ c.hidden_layers_sizes_a = <<256>>
        /\ c.hidden_layers_sizes_b = <<>>
        /\ ~c.share_embedding
        /\ ~c.gpu_lstm /\ ~c.transformer
        /\ c.similarity_type = "cosine"
        /\ c.intent_tokenization_flag
        /\ ~c.batch_size.is_list
        /\ c.evaluate_on_num_examples # 0}

\* every epoch count of the loop with each of these settings
LoopConfigs ==
    {[c EXCEPT !.epochs = e] : e \in 1..MaxScheduleEpochs, c \in LoopArchitectures}

LoopTrainingSets ==
    {td \in TrainingSetsOver({"bye", "greet"}, MaxTrainExamples) : td.xdim = 2}

\* locals of train() and _train_tf_dataset between two session.run calls
LoopTrainer(is_running, n_examples) ==
    [running |-> is_running, ep |-> 0, n_examples |-> n_examples,
     batches |-> <<>>, evals |-> {}, last_loss |-> None,
     in_epoch |-> FALSE, batch_size |-> 0, seen |-> <<>>, batch |-> <<>>,
     pool |-> <<>>, tiled |-> <<>>, batches_per_epoch |-> 0,
     val_ids |-> <<>>, eval_tiled |-> <<>>]

ConstructLoop == ConstructFrom(LoopConfigs)

\* line 916, Dataset.shuffle(len(X)): the next rows are any examples not yet
\* seen in this epoch, in any order
NextBatches(n_examples, seen, rows) ==
    {b \in [1..rows -> (1..n_examples) \ {seen[i] : i \in DOMAIN seen}] :
        \A i, j \in 1..rows : i # j => b[i] # b[j]}

\* lines 919-924: ids = np.random.permutation(len(X))[:evaluate_on_num_examples],
\* the rows of the evaluation dataset, batched as one batch
EvalIds(self, n_examples) ==
    NextBatches(n_examples, <<>>, Min(n_examples, self.evaluate_on_num_examples))

\* train(training_data) up to the first epoch
TrainFreshLoop ==
    /\ call.op = "__init__"
    /\ ~IsNone(clf)
    /\ \E td \in LoopTrainingSets :
         LET r == TrainSetup(Val(clf), td)
         IN /\ clf' = Some(r.self)
            /\ call' = Call("train", Some(td), r.outcome, None)
            /\ IF r.outcome = "running"
               THEN \E ids \in EvalIds(r.self, Len(td.labels)) :
                      trainer' = [LoopTrainer(TRUE, Len(td.labels))
                                     EXCEPT !.val_ids = ids]
               ELSE trainer' = LoopTrainer(FALSE, Len(td.labels))
    /\ UNCHANGED disk

\* lines 1010-1014: the batch size of the epoch, the iterator re-initialised
EpochBegin ==
    /\ trainer.running
    /\ ~trainer.in_epoch
    /\ trainer.ep < Val(clf).component_config.epochs
    /\ trainer' = [trainer EXCEPT
           !.in_epoch = TRUE,
           !.batch_size = linearly_increasing_batch_size(Val(clf), trainer.ep),
           !.seen = <<>>, !.batch = <<>>, !.pool = <<>>, !.tiled = <<>>,
           !.batches_per_epoch = 0, !.eval_tiled = <<>>]
    /\ UNCHANGED <<clf, call, disk>>

\* a batch that keeps an incomplete final batch whatever drop_remainder says
next_batch_rows_keep(remaining, batch_size, drop_remainder) ==
    Min(batch_size, remaining)

\* line 917, Dataset.batch(batch_size, drop_remainder): rows of the next
\* batch when `remaining` examples are left, 0 when the iterator is exhausted
next_batch_rows(remaining, batch_size, drop_remainder) ==
    IF drop_remainder /\ remaining < batch_size THEN 0
    ELSE Min(batch_size, remaining)

\* negatives per row, the constant passed to tf.random.categorical at line 946
NegsPerRow == 3

\* a sampler whose candidates are the rows of another intent
categorical_candidates_other_intent(labels, batch, b) ==
    {j \in DOMAIN batch : labels[batch[j]] # labels[batch[b]]}

\* line 946: logits log(1 - eye(rows)); row b may draw any row but itself
categorical_candidates(labels, batch, b) ==
    {j \in DOMAIN batch : j # b}

\* _tf_sample_neg lines 595-596: all_b, for every row of the batch the
\* intent embeddings of all the rows of the batch in batch order
all_b(batch) == [b \in DOMAIN batch |-> [j \in DOMAIN batch |-> j]]

\* a sampler that puts the sampled rows before the row's own intent
TiledChoices_own_last(labels, batch) ==
    IF Len(batch) > 1
    THEN {[b \in DOMAIN batch |-> negs[b] \o <<b>>] :
             negs \in RandomChoices(
                 [b \in DOMAIN batch |-> categorical_candidates(labels, batch, b)],
                 NegsPerRow)}
    ELSE {all_b(batch)}

\* lines 946 and 961, _tf_sample_neg in training mode: with more than one row
\* the candidates of row b are its own intent embedding followed by those of
\* NegsPerRow sampled rows, else every row of the batch
TiledChoices(labels, batch) ==
    IF Len(batch) > 1
    THEN {[b \in DOMAIN batch |-> <<b>> \o negs[b]] :
             negs \in RandomChoices(
                 [b \in DOMAIN batch |-> categorical_candidates(labels, batch, b)],
                 NegsPerRow)}
    ELSE {all_b(batch)}

\* lines 1015-1023: one session.run((train_op, loss)) that yields a batch
TrainBatch ==
    /\ trainer.running
    /\ trainer.in_epoch
    /\ LET self == Val(clf)
           labels == Val(call.arg).labels
           rows == next_batch_rows(trainer.n_examples - Len(trainer.seen),
                                   trainer.batch_size,
                                   self.component_config.fused_lstm)
       IN /\ rows > 0
          /\ \E batch \in NextBatches(trainer.n_examples, trainer.seen, rows) :
               \E tiled \in TiledChoices(labels, batch) :
                  trainer' = [trainer EXCEPT
                      !.seen = @ \o batch,
                      !.batch = batch,
                      !.pool = [b \in DOMAIN batch |->
                                   categorical_candidates(labels, batch, b)],
                      !.tiled = tiled,
                      !.batches_per_epoch = @ + 1]
          /\ clf' = Some([self EXCEPT !.session = Some([steps |-> Val(@).steps + 1])])
    /\ UNCHANGED <<call, disk>>

\* lines 1019-1041: OutOfRangeError ends the epoch, the mean loss is taken
\* and the accuracy evaluated when due, sim_op being run on the evaluation
\* batch outside training mode (lines 1052-1053)
EpochEnd ==
    /\ trainer.running
    /\ trainer.in_epoch
    /\ LET self == Val(clf)
           ep == trainer.ep
           evaluate == self.evaluate_on_num_examples # 0 /\ EvaluateAt(self, ep)
       IN /\ next_batch_rows(trainer.n_examples - Len(trainer.seen),
                             trainer.batch_size,
                             self.component_config.fused_lstm) = 0
          /\ IF trainer.batches_per_epoch = 0
             THEN /\ trainer' = [trainer EXCEPT !.running = FALSE, !.in_epoch = FALSE]
                  /\ call' = [call EXCEPT !.outcome = "ZeroDivisionError"]
             ELSE /\ trainer' = [trainer EXCEPT
                        !.in_epoch = FALSE,
                        !.ep = ep + 1,
                        !.batches = Append(@, [batch_size |-> trainer.batch_size,
                                               n_batches |-> trainer.batches_per_epoch]),
                        !.evals = IF evaluate THEN @ \cup {ep} ELSE @,
                        !.last_loss = IF evaluate THEN Some(ep) ELSE @,
                        !.eval_tiled = IF evaluate THEN all_b(trainer.val_ids)
                                       ELSE @]
                  /\ call' = call
    /\ UNCHANGED <<clf, disk>>

NextLoop ==
    \/ ConstructLoop
    \/ TrainFreshLoop
    \/ EpochBegin
    \/ TrainBatch
    \/ EpochEnd
    \/ TrainEnd

SpecLoop == Init /\ [][NextLoop]_vars

\* ------------------------------------------------- helper specification
\* the batch-size schedule and the two numpy negative samplers applied to
\* inputs drawn from bounded sets; `call` records the application
BatchSizeSettings ==
    {[is_list |-> TRUE, v |-> <<s, e>>] : s, e \in 1..MaxBatchEnd}
    \cup {[is_list |-> FALSE, v |-> <<s>>] : s \in 1..MaxBatchEnd}

\* the fields of self that _linearly_increasing_batch_size reads
ScheduleSelf(batch_size, epochs) ==
    [component_config |-> [batch_size |-> batch_size, epochs |-> epochs]]

ApplyBatchSize ==
    /\ call.op = "none"
    /\ \E batch_size \in BatchSizeSettings, epochs \in 1..MaxScheduleEpochs :
         \E epoch \in 0..(epochs - 1) :
            call' = Call("_linearly_increasing_batch_size",
                         Some([batch_size |-> batch_size, epochs |-> epochs,
                               epoch |-> epoch]),
                         "returned",
                         Some(linearly_increasing_batch_size(
                                  ScheduleSelf(batch_size, epochs), epoch)))
    /\ UNCHANGED <<clf, trainer, disk>>

\* np.eye(n): the encoded intents of n intents without tokenization
EyeIntents(n) == [i \in 0..(n - 1) |-> [j \in 0..(n - 1) |-> IF i = j THEN 1 ELSE 0]]

\* batches of intent ids: one id per row, rows numbered from 0
SamplerRows == {1, 2}

IntentIdBatches(n) ==
    UNION {[0..(k - 1) -> 0..(n - 1)] : k \in SamplerRows}

\* a table lookup that keeps the true intent among the candidates
table_negative_indexes_all(encoded_all_intents, intent_ids, b) ==
    DOMAIN encoded_all_intents

\* _create_batch_b lines 681-684 (use_iou off): range(n) without intent_ids[b]
table_negative_indexes(encoded_all_intents, intent_ids, b) ==
    {i \in DOMAIN encoded_all_intents : i # intent_ids[b]}

\* _negs_from_batch lines 703-706 (use_iou off): rows of the batch whose
\* positive differs from the positive of row b
batch_negative_indexes(batch_pos_b, b) ==
    {i \in DOMAIN batch_pos_b : batch_pos_b[i] # batch_pos_b[b]}

\* _create_batch_b(batch_pos_b, intent_ids)
ApplyCreateBatchB ==
    /\ call.op = "none"
    /\ \E n \in 1..MaxSamplerIntents, num_neg \in 1..MaxNumNeg :
         \E intent_ids \in IntentIdBatches(n) :
            LET encoded_all_intents == EyeIntents(n)
                batch_pos_b == [b \in DOMAIN intent_ids |-> encoded_all_intents[intent_ids[b]]]
                candidates == [b \in DOMAIN intent_ids |->
                                  table_negative_indexes(encoded_all_intents, intent_ids, b)]
                arg == Some([encoded_all_intents |-> encoded_all_intents,
                             num_neg |-> num_neg, intent_ids |-> intent_ids,
                             batch_pos_b |-> batch_pos_b])
            IN IF \E b \in DOMAIN candidates : candidates[b] = {}
               THEN call' = Call("_create_batch_b", arg, "ValueError", None)
               ELSE \E negs \in RandomChoices(candidates, num_neg) :
                      call' = Call("_create_batch_b", arg, "returned",
                          Some([negs |-> negs,
                                batch_b |-> [b \in DOMAIN negs |->
                                    <<batch_pos_b[b]>> \o
                                    [k \in 1..num_neg |-> encoded_all_intents[negs[b][k]]]]]))
    /\ UNCHANGED <<clf, trainer, disk>>

\* _negs_from_batch(batch_pos_b, intent_ids)
ApplyNegsFromBatch ==
    /\ call.op = "none"
    /\ \E n \in 1..MaxSamplerIntents, num_neg \in 1..MaxNumNeg :
         \E intent_ids \in IntentIdBatches(n) :
            LET batch_pos_b == [b \in DOMAIN intent_ids |-> EyeIntents(n)[intent_ids[b]]]
                candidates == [b \in DOMAIN intent_ids |->
                                  batch_negative_indexes(batch_pos_b, b)]
                arg == Some([num_neg |-> num_neg, intent_ids |-> intent_ids,
                             batch_pos_b |-> batch_pos_b])
            IN IF \E b \in DOMAIN candidates : candidates[b] = {}
               THEN call' = Call("_negs_from_batch", arg, "ValueError", None)
               ELSE \E negs \in RandomChoices(candidates, num_neg) :
                      call' = Call("_negs_from_batch", arg, "returned",
                                   Some([negs |-> negs]))
    /\ UNCHANGED <<clf, trainer, disk>>

\* intents of the examples of an evaluation slice, one per row
EvalSlices ==
    UNION {[1..k -> {"bye", "greet"}] : k \in 1..MaxEvalRows}

EvalScores == {0, 1}

\* session.run(self.sim_op) outside training (lines 1052-1053): _tf_sample_neg
\* tiles the intent embeddings of all rows of the batch, so entry [i][j] is
\* the similarity of example i to the intent of row j, and two rows of the
\* same intent give every example the same similarity
TrainSims(intents) ==
    {[i \in DOMAIN intents |-> [j \in DOMAIN intents |-> by_intent[i][intents[j]]]] :
        by_intent \in [DOMAIN intents -> [{intents[j] : j \in DOMAIN intents} -> EvalScores]]}

\* np.argmax(row): the first position that holds the maximum
ArgMax(row) ==
    CHOOSE j \in DOMAIN row :
        /\ \A m \in DOMAIN row : row[m] <= row[j]
        /\ \A m \in DOMAIN row : m < j => row[m] < row[j]

\* line 1055: np.mean(np.argmax(train_sim, -1) == np.arange(len(train_sim))),
\* kept as the pair (rows counted correct, rows)
training_stat(intents, train_sim) ==
    [correct |-> Cardinality({i \in DOMAIN train_sim : ArgMax(train_sim[i]) = i}),
     of |-> Len(train_sim)]

\* _output_training_stat_dataset(val_init_op) on an evaluation slice
ApplyOutputTrainingStat ==
    /\ call.op = "none"
    /\ \E intents \in EvalSlices :
         \E train_sim \in TrainSims(intents) :
            call' = Call("_output_training_stat_dataset",
                         Some([intents |-> intents, train_sim |-> train_sim]),
                         "returned",
                         Some(training_stat(intents, train_sim)))
    /\ UNCHANGED <<clf, trainer, disk>>

\* ------------------------------------------- sequence mask of the encoder
\* text_features of a message: one row of feature counts per token
TokenRows == [1..2 -> 0..1]
TokenSequences == UNION {[1..k -> TokenRows] : k \in 1..MaxSeqLen}

\* _to_sparse_tensor and tf.sparse_tensor_to_dense (lines 858-863, 934-936):
\* the rows of a message in a batch of sequence length seq_len; positions
\* without an entry, real zeros and padding alike, are filled with 0
to_dense(rows, seq_len) ==
    [t \in 1..seq_len |-> IF t <= Len(rows) THEN rows[t] ELSE [j \in 1..2 |-> 0]]

RECURSIVE SeqSum(_)
SeqSum(v) == IF Len(v) = 0 THEN 0 ELSE v[1] + SeqSum(Tail(v))

RECURSIVE SeqProd(_)
SeqProd(v) == IF Len(v) = 0 THEN 1 ELSE v[1] * SeqProd(Tail(v))

\* tf.sign and tf.reduce_max(x, -1)
Sign(v) == IF v > 0 THEN 1 ELSE IF v < 0 THEN -1 ELSE 0
ReduceMax(row) == CHOOSE m \in {row[j] : j \in DOMAIN row} : \A j \in DOMAIN row : row[j] <= m

\* tf.cumprod(v, exclusive=True, reverse=True) and tf.cumsum(v, reverse=True)
CumprodExclusiveReverse(v) ==
    [t \in 1..Len(v) |-> SeqProd(SubSeq(v, t + 1, Len(v)))]
CumsumReverse(v) ==
    [t \in 1..Len(v) |-> SeqSum(SubSeq(v, t, Len(v)))]

\* line 399
rnn_sign_mask(x_in) == [t \in 1..Len(x_in) |-> Sign(ReduceMax(x_in[t]))]

\* line 400
rnn_last(x_in) ==
    LET mask == rnn_sign_mask(x_in)
        rest == CumprodExclusiveReverse([t \in 1..Len(mask) |-> 1 - mask[t]])
    IN [t \in 1..Len(mask) |-> mask[t] * rest[t]]

\* lines 401-402
rnn_real_length(x_in) == SeqSum(CumsumReverse(rnn_last(x_in)))

\* lines 398-404 of _create_tf_rnn_embed on one message of a training batch
ApplyRnnMask ==
    /\ call.op = "none"
    /\ \E rows \in TokenSequences :
         \E seq_len \in Len(rows)..MaxSeqLen :
            call' = Call("_create_tf_rnn_embed",
                         Some([rows |-> rows, seq_len |-> seq_len]),
                         "returned",
                         Some([last |-> rnn_last(to_dense(rows, seq_len)),
                               real_length |-> rnn_real_length(to_dense(rows, seq_len))]))
    /\ UNCHANGED <<clf, trainer, disk>>

NextHelpers ==
    \/ ApplyBatchSize
    \/ ApplyCreateBatchB
    \/ ApplyNegsFromBatch
    \/ ApplyOutputTrainingStat
    \/ ApplyRnnMask

SpecHelpers == Init /\ [][NextHelpers]_vars

\* ================================================================ claims
\* the config of the instance, the training set of a finished train() call
Self == Val(clf)
TrainCallEnded == call.op = "train" /\ ~trainer.running
NumIntents(td) == Cardinality(DistinctIntents(td.labels))

\* a configuration that passes every check of the constructor and of the
\* graph construction: no architecture flag, no sharing, supported
\* similarity, evaluation enabled
PlainConfig(c) ==
    /\ ~c.fused_lstm /\ ~c.gpu_lstm /\ ~c.transformer
    /\ ~c.share_embedding
    /\ c.similarity_type \in {"cosine", "inner"}
    /\ c.intent_tokenization_flag
    /\ c.evaluate_on_num_examples # 0

\* C1: a train() call on at least 2 distinct intents with a valid
\* configuration runs every epoch, returns normally and leaves session,
\* sim_op, all_intents_embed_values and sim_all set.
C1_TrainReturnsTrained ==
    (/\ TrainCallEnded
     /\ NumIntents(Val(call.arg)) >= 2
     /\ PlainConfig(Self.component_config))
    => /\ call.outcome = "returned"
       /\ trainer.ep = Self.component_config.epochs
       /\ ~IsNone(Self.session)
       /\ ~IsNone(Self.sim_op)
       /\ ~IsNone(Self.all_intents_embed_values)
       /\ ~IsNone(Self.sim_all)

\* C2: train() on a fresh classifier with fewer than 2 distinct intents
\* returns and leaves the classifier exactly as constructed: no graph, no
\* session, no intent dictionary, no encoded-intent table.
C2_TooFewIntentsSkipsTraining ==
    (call.op = "train" /\ NumIntents(Val(call.arg)) < 2)
    => /\ call.outcome = "returned"
       /\ ~trainer.running
       /\ Self = FreshInstance(Self.component_config)
       /\ IsNone(Self.graph) /\ IsNone(Self.session)
       /\ IsNone(Self.inv_intent_dict) /\ IsNone(Self.encoded_all_intents)

C2_Witness ==
    /\ call.op = "train"
    /\ Len(Val(call.arg).labels) >= 2
    /\ NumIntents(Val(call.arg)) = 1
    /\ call.outcome = "returned"
    /\ IsNone(Self.session)

\* C3: process() on a classifier without a session returns normally and
\* sets intent to {name: null, confidence: 0.0} and intent_ranking to [].
C3_UntrainedProcessGivesNullIntent ==
    (call.op = "process" /\ IsNone(Self.session))
    => /\ call.outcome = "returned"
       /\ Val(call.ret).intent = Some(NullIntent)
       /\ Val(call.ret).intent_ranking = Some(<<>>)

C3_Witness ==
    /\ call.op = "process"
    /\ IsNone(Self.session)
    /\ AnyNonZero(Val(call.arg))
    /\ Val(call.ret).intent = Some(NullIntent)
    /\ Val(call.ret).intent_ranking = Some(<<>>)

\* C4: process() of an all-zero feature vector on a trained classifier
\* (one that holds a session) sets the null intent and an empty ranking.
C4_ZeroMessageGivesNullIntent ==
    (/\ call.op = "process"
     /\ ~IsNone(Self.session)
     /\ ~AnyNonZero(Val(call.arg)))
    => /\ call.outcome = "returned"
       /\ Val(call.ret).intent = Some(NullIntent)
       /\ Val(call.ret).intent_ranking = Some(<<>>)

\* C5: persist() without a session returns a null classifier_file and
\* leaves the model directory untouched; with a session it writes the
\* checkpoint and the four auxiliary tables (placeholder dimensions, inverse
\* intent dictionary, encoded intents, all-intents embedding values) and
\* returns the checkpoint name.
C5_PersistWritesOnlyWhenTrained ==
    [][call'.op = "persist" =>
         /\ call'.outcome = "returned"
         /\ IF IsNone(Self.session)
            THEN /\ Val(call'.ret).classifier_file = None
                 /\ disk' = disk
            ELSE /\ Val(call'.ret).classifier_file = Some(CheckpointFile)
                 /\ \A f \in FileNames : ~IsNone(disk'[f])
                 /\ Val(disk'[CheckpointFile]).variables = Val(Self.session)
                 /\ Val(disk'[PlaceholderDimsFile]) =
                        [a_in |-> Val(Self.a_in).last_dim,
                         b_in |-> Val(Self.b_in).last_dim]
                 /\ Val(disk'[InvIntentDictFile]) = Self.inv_intent_dict
                 /\ Val(disk'[EncodedAllIntentsFile]) = Self.encoded_all_intents
                 /\ Val(disk'[AllIntentsEmbedValuesFile]) = Self.all_intents_embed_values]_vars

C5_Witness ==
    /\ call.op = "persist"
    /\ ~IsNone(Self.session)
    /\ Val(call.ret).classifier_file = Some(CheckpointFile)
    /\ \A f \in FileNames : ~IsNone(disk[f])

\* C6: load() with a missing checkpoint reference (classifier_file absent or
\* null), with or without a model_dir, returns an untrained instance.
C6_LoadWithoutReferenceReturnsUntrained ==
    (/\ call.op = "load"
     /\ IsNone(meta_get_classifier_file(Val(call.arg).classifier_file)))
    => /\ call.outcome = "returned"
       /\ IsNone(Self.session)

\* process() on an instance is able to rank the intents
CanRank(self) ==
    /\ ~IsNone(self.session)
    /\ ~IsNone(self.sim_all)
    /\ ~IsNone(self.all_intents_embed_values)

\* C7: persist() of a trained classifier followed by load() with the
\* returned metadata yields an instance with the same inverse intent
\* dictionary, encoded-intent table, all-intents embedding table and weights,
\* on which process() ranks the intents as before.
C7_PersistLoadRoundTrip ==
    (/\ call.op = "load"
     /\ Val(call.arg).round_trip
     /\ ~IsNone(Val(call.arg).saved.session))
    => /\ call.outcome = "returned"
       /\ Self.inv_intent_dict = Val(call.arg).saved.inv_intent_dict
       /\ Self.encoded_all_intents = Val(call.arg).saved.encoded_all_intents
       /\ Self.all_intents_embed_values = Val(call.arg).saved.all_intents_embed_values
       /\ Self.session = Val(call.arg).saved.session
       /\ CanRank(Val(call.arg).saved)
       /\ CanRank(Self)

\* the architecture flags that are set, and the encoder each one selects
FlagsSet(c) ==
    {f \in {"fused", "gpu", "attention"} :
        \/ (f = "fused" /\ c.fused_lstm)
        \/ (f = "gpu" /\ c.gpu_lstm)
        \/ (f = "attention" /\ c.transformer)}

SelectedEncoders(c) == IF FlagsSet(c) = {} THEN {"custom"} ELSE FlagsSet(c)

\* C8: constructing with more than one of fused_lstm, gpu_lstm, transformer
\* raises a configuration error and yields no instance; with at most one
\* flag set the constructor fails only for shared embeddings of different
\* layer lists or unequal layer sizes under gpu_lstm/transformer; every
\* instance has at most one flag set and the encoder its graph uses for
\* either side is the single strategy the flags select.
C8_OneEncoderStrategy ==
    /\ (call.op = "__init__" /\ Cardinality(FlagsSet(Val(call.arg))) > 1)
       => (call.outcome = "ValueError" /\ IsNone(clf))
    /\ (/\ call.op = "__init__"
        /\ Cardinality(FlagsSet(Val(call.arg))) <= 1
        /\ call.outcome # "returned")
       => LET a == Val(call.arg).hidden_layers_sizes_a
              b == Val(call.arg).hidden_layers_sizes_b
          IN \/ (Val(call.arg).share_embedding /\ a # b)
             \/ /\ FlagsSet(Val(call.arg)) \cap {"gpu", "attention"} # {}
                /\ \/ \E i, j \in DOMAIN a : a[i] # a[j]
                   \/ \E i, j \in DOMAIN b : b[i] # b[j]
    /\ ~IsNone(clf) =>
          /\ Cardinality(FlagsSet(Self.component_config)) <= 1
          /\ Cardinality(SelectedEncoders(Self.component_config)) = 1
          /\ ~IsNone(Self.graph) =>
                /\ Val(Self.graph).encoder_a \in
                      {None} \cup {Some(e) : e \in SelectedEncoders(Self.component_config)}
                /\ Val(Self.graph).encoder_b \in
                      {None} \cup {Some(e) : e \in SelectedEncoders(Self.component_config)}

C8_Witness ==
    /\ ~IsNone(clf)
    /\ Self.component_config.transformer
    /\ ~IsNone(Self.graph)
    /\ Val(Self.graph).encoder_a = Some("attention")
    /\ Val(Self.graph).encoder_b = Some("attention")

\* C9: with share_embedding, different hidden-layer size lists for a and b
\* make the constructor raise a configuration error; no instance and hence
\* no intent dictionary, graph or session exists, and no instance ever
\* shares embeddings with different lists.
C9_SharedSizesRejectedAtConstruction ==
    /\ (/\ call.op = "__init__"
        /\ Val(call.arg).share_embedding
        /\ Val(call.arg).hidden_layers_sizes_a # Val(call.arg).hidden_layers_sizes_b)
       => /\ call.outcome = "ValueError"
          /\ IsNone(clf)
          /\ trainer = IdleTrainer
          /\ \A f \in FileNames : IsNone(disk[f])
    /\ (~IsNone(clf) /\ Self.component_config.share_embedding)
       => Self.component_config.hidden_layers_sizes_a
             = Self.component_config.hidden_layers_sizes_b

C9_Witness ==
    /\ call.op = "__init__"
    /\ Val(call.arg).share_embedding
    /\ Val(call.arg).hidden_layers_sizes_a = <<256>>
    /\ Val(call.arg).hidden_layers_sizes_b = <<>>
    /\ ~ArchFlagsConflict(Val(call.arg))
    /\ call.outcome = "ValueError"
    /\ IsNone(clf)

UnsupportedSimilarity(c) == c.similarity_type \notin {"cosine", "inner"}

\* C10 as stated: an unsupported similarity_type is rejected by the
\* constructor, so no instance carries one.
C10_RejectedAtConstruction ==
    /\ (call.op = "__init__" /\ UnsupportedSimilarity(Val(call.arg)))
       => call.outcome = "ValueError"
    /\ ~IsNone(clf) => ~UnsupportedSimilarity(Self.component_config)

\* the graph construction of train() fails before it reaches _tf_sim
FailsBeforeSimilarity(self, td) ==
    \/ SharedFeaturesMismatch(self, td)
    \/ to_sparse_tensor_error(self) # "none"
    \/ rnn_embed_error(self.component_config,
                       self.component_config.hidden_layers_sizes_a) # "none"
    \/ rnn_embed_error(self.component_config,
                       self.component_config.hidden_layers_sizes_b) # "none"

\* C10 amended: the constructor accepts an unsupported similarity_type; it
\* is rejected when train() on at least 2 intents reaches the similarity
\* definition: the call raises ValueError with no session created and no
\* epoch run, after train() has set the intent dictionary, the encoded
\* intents, the graph, the placeholders and both embeddings.  A call whose
\* graph construction fails earlier raises that earlier error, also with no
\* session and no epoch.
C10_RejectedAtGraphConstruction ==
    (~IsNone(clf) /\ UnsupportedSimilarity(Self.component_config))
    => /\ IsNone(Self.session)
       /\ IsNone(Self.sim_op)
       /\ ~trainer.running
       /\ trainer.ep = 0
       /\ (call.op = "train" /\ NumIntents(Val(call.arg)) >= 2)
          => IF FailsBeforeSimilarity(Self, Val(call.arg))
             THEN call.outcome \in {"ValueError", "IndexError", "AttributeError"}
             ELSE /\ call.outcome = "ValueError"
                  /\ ~IsNone(Self.inv_intent_dict)
                  /\ ~IsNone(Self.encoded_all_intents)
                  /\ ~IsNone(Self.graph)
                  /\ ~IsNone(Self.a_in) /\ ~IsNone(Self.b_in)
                  /\ ~IsNone(Self.word_embed) /\ ~IsNone(Self.intent_embed)

C10_Witness ==
    /\ ~IsNone(clf)
    /\ UnsupportedSimilarity(Self.component_config)
    /\ call.op = "train"
    /\ NumIntents(Val(call.arg)) >= 2
    /\ ~FailsBeforeSimilarity(Self, Val(call.arg))
    /\ call.outcome = "ValueError"
    /\ ~IsNone(Self.graph)
    /\ ~IsNone(Self.intent_embed)
    /\ IsNone(Self.session)

\* C11 as stated: once train() has passed its intent-count check, num_neg
\* lies between 1 and (number of distinct intents - 1).
C11_ClampedAfterIntentCheck ==
    (call.op = "train" /\ NumIntents(Val(call.arg)) >= 2)
    => /\ Self.num_neg >= 1
       /\ Self.num_neg <= NumIntents(Val(call.arg)) - 1

\* C11 amended: once train() has passed its intent-count check and the
\* shared-embedding feature-width check of lines 888-892, num_neg lies
\* between 1 and (number of distinct intents - 1).
C11_ClampedAfterFeatureCheck ==
    (/\ call.op = "train"
     /\ NumIntents(Val(call.arg)) >= 2
     /\ ~SharedFeaturesMismatch(Self, Val(call.arg)))
    => /\ Self.num_neg >= 1
       /\ Self.num_neg <= NumIntents(Val(call.arg)) - 1

C11_Witness ==
    /\ call.op = "train"
    /\ NumIntents(Val(call.arg)) = 2
    /\ Self.component_config.num_neg = MaxNumNeg
    /\ ~SharedFeaturesMismatch(Self, Val(call.arg))
    /\ Self.num_neg = 1

\* C12: _create_batch_b (table-based sampling) returns, for every row of the
\* batch, num_neg indices of the intent table none of which is the row's
\* true intent index; it raises when the table has no other intent.
C12_TableNegativesExcludeTrueIntent ==
    call.op = "_create_batch_b"
    => LET in == Val(call.arg)
       IN IF Cardinality(DOMAIN in.encoded_all_intents) < 2
          THEN call.outcome = "ValueError"
          ELSE /\ call.outcome = "returned"
               /\ DOMAIN Val(call.ret).negs = DOMAIN in.intent_ids
               /\ \A b \in DOMAIN in.intent_ids :
                     /\ Len(Val(call.ret).negs[b]) = in.num_neg
                     /\ \A k \in 1..in.num_neg :
                           /\ Val(call.ret).negs[b][k] \in DOMAIN in.encoded_all_intents
                           /\ Val(call.ret).negs[b][k] # in.intent_ids[b]
                           /\ Val(call.ret).batch_b[b][k + 1] # Val(call.ret).batch_b[b][1]

C12_Witness ==
    /\ call.op = "_create_batch_b"
    /\ call.outcome = "returned"
    /\ Cardinality(DOMAIN Val(call.arg).encoded_all_intents) = 3
    /\ Cardinality(DOMAIN Val(call.arg).intent_ids) = 2
    /\ Val(call.arg).intent_ids[0] = Val(call.arg).intent_ids[1]
    /\ Val(call.arg).num_neg = 2
    /\ Val(call.ret).negs[0][1] # Val(call.ret).negs[0][2]

\* the inputs and the result of a batch-size computation on a [start, end] list
IsSchedule == call.op = "_linearly_increasing_batch_size"
ScheduleStart == Val(call.arg).batch_size.v[1]
ScheduleEnd == Val(call.arg).batch_size.v[2]
RoundUpEven(x) == IF x % 2 = 0 THEN x ELSE x + 1

\* C15 as stated: for epochs > 1 and batch_size = [start, end] the batch
\* size of epoch 0 is start and that of epoch (epochs - 1) is end.
C15_ScheduleEndpointsExact ==
    (IsSchedule /\ Val(call.arg).batch_size.is_list /\ Val(call.arg).epochs > 1)
    => /\ Val(call.arg).epoch = 0 => Val(call.ret) = ScheduleStart
       /\ Val(call.arg).epoch = Val(call.arg).epochs - 1 => Val(call.ret) = ScheduleEnd

\* C15 amended: for epochs > 1 and batch_size = [start, end] the batch size
\* of epoch 0 is start rounded up to the next even number and that of epoch
\* (epochs - 1) is end rounded up to the next even number; they are start and
\* end themselves exactly when these are even.
C15_ScheduleEndpointsRounded ==
    (IsSchedule /\ Val(call.arg).batch_size.is_list /\ Val(call.arg).epochs > 1)
    => /\ Val(call.arg).epoch = 0 =>
             /\ Val(call.ret) = RoundUpEven(ScheduleStart)
             /\ (Val(call.ret) = ScheduleStart) <=> (ScheduleStart % 2 = 0)
       /\ Val(call.arg).epoch = Val(call.arg).epochs - 1 =>
             /\ Val(call.ret) = RoundUpEven(ScheduleEnd)
             /\ (Val(call.ret) = ScheduleEnd) <=> (ScheduleEnd % 2 = 0)

C15_Witness ==
    /\ IsSchedule
    /\ Val(call.arg).batch_size.is_list
    /\ Val(call.arg).epochs = 3
    /\ Val(call.arg).epoch = 2
    /\ ScheduleStart = 1
    /\ ScheduleEnd = 3
    /\ Val(call.ret) = 4

\* C16 as stated: the batch size of every epoch but the final one is even,
\* for a [start, end] list and for a single number.
C16_EvenExceptFinalEpoch ==
    (IsSchedule /\ Val(call.arg).epoch < Val(call.arg).epochs - 1)
    => Val(call.ret) % 2 = 0

\* C16 amended: for a [start, end] list and epochs > 1 the batch size of
\* every epoch, the final one included, is even; with a single epoch it is
\* start as configured, and a single number is returned as configured at
\* every epoch, odd or even.
C16_EvenForMultiEpochList ==
    IsSchedule
    => IF ~Val(call.arg).batch_size.is_list
       THEN Val(call.ret) = ScheduleStart
       ELSE IF Val(call.arg).epochs > 1
            THEN Val(call.ret) % 2 = 0
            ELSE Val(call.ret) = ScheduleStart

C16_Witness ==
    /\ IsSchedule
    /\ Val(call.arg).batch_size.is_list
    /\ Val(call.arg).epochs = 3
    /\ Val(call.arg).epoch = 1
    /\ ScheduleStart = 1
    /\ ScheduleEnd = 4
    /\ Val(call.ret) = 2

\* C17 as stated: with epochs = 1 and batch_size = [start, end] the batch
\* size of the single epoch is end.
C17_SingleEpochUsesEnd ==
    (IsSchedule /\ Val(call.arg).batch_size.is_list /\ Val(call.arg).epochs = 1)
    => Val(call.ret) = ScheduleEnd

\* C17 amended: with epochs = 1 and batch_size = [start, end] the batch size
\* of the single epoch is exactly start, not rounded; it is end only when
\* start = end.
C17_SingleEpochUsesStart ==
    (IsSchedule /\ Val(call.arg).batch_size.is_list /\ Val(call.arg).epochs = 1)
    => /\ Val(call.ret) = ScheduleStart
       /\ (Val(call.ret) = ScheduleEnd) <=> (ScheduleStart = ScheduleEnd)

C17_Witness ==
    /\ IsSchedule
    /\ Val(call.arg).batch_size.is_list
    /\ Val(call.arg).epochs = 1
    /\ ScheduleStart = 3
    /\ ScheduleEnd = 4
    /\ Val(call.ret) = 3

\* the training set of the running train() call and the intent of batch row b
LoopLabels == Val(call.arg).labels
RowIntent(b) == LoopLabels[trainer.batch[b]]
BatchDrawn == call.op = "train" /\ trainer.batch # <<>>
EpochClosed == call.op = "train" /\ ~trainer.in_epoch /\ trainer.ep > 0

\* C13: in every training batch the negatives of a row never include a row
\* with the same positive intent, and when a row has no eligible row the
\* sampling raises an error.
C13_BatchNegativesExcludeSameIntent ==
    BatchDrawn
    => \A b \in DOMAIN trainer.batch :
          IF \E j \in DOMAIN trainer.batch : RowIntent(j) # RowIntent(b)
          THEN \A k \in 2..Len(trainer.tiled[b]) :
                  RowIntent(trainer.tiled[b][k]) # RowIntent(b)
          ELSE call.outcome \notin {"running", "SystemExit", "returned"}

\* C14: the negatives of train() come from the source the configuration
\* selects: with use_neg_from_batch the candidates of a row are the other
\* rows of its batch, without it they are the intents of the full intent
\* table except the row's own intent.
C14_SamplingStrategyFollowsConfig ==
    (BatchDrawn /\ Len(trainer.batch) > 1)
    => \A b \in DOMAIN trainer.batch :
          IF Self.component_config.use_neg_from_batch
          THEN trainer.pool[b] = DOMAIN trainer.batch \ {b}
          ELSE {RowIntent(j) : j \in trainer.pool[b]}
                   = DistinctIntents(LoopLabels) \ {RowIntent(b)}

\* C18 as stated: in every epoch every training example is placed in
\* exactly one batch, whatever the architecture.
C18_EveryExampleOncePerEpoch ==
    EpochClosed
    => /\ Len(trainer.seen) = trainer.n_examples
       /\ {trainer.seen[i] : i \in DOMAIN trainer.seen} = 1..trainer.n_examples

\* C18 amended: in every epoch no example is placed in more than one batch;
\* without fused_lstm every example is placed in exactly one batch, with
\* fused_lstm the (n mod batch_size) examples of an incomplete final batch
\* are skipped.
C18_OncePerEpochUnlessRemainderDropped ==
    /\ (call.op = "train" /\ trainer.running)
       => \A i, j \in DOMAIN trainer.seen : i # j => trainer.seen[i] # trainer.seen[j]
    /\ EpochClosed
       => LET n == trainer.n_examples
              bs == trainer.batch_size
              fused == Self.component_config.fused_lstm
          IN /\ Len(trainer.seen) = IF fused THEN n - (n % bs) ELSE n
             /\ ~fused => {trainer.seen[i] : i \in DOMAIN trainer.seen} = 1..n
             /\ trainer.batches[trainer.ep].n_batches
                   = IF fused THEN n \div bs ELSE (n + bs - 1) \div bs

C18_Witness ==
    /\ EpochClosed
    /\ Self.component_config.fused_lstm
    /\ trainer.n_examples = 3
    /\ trainer.batch_size = 2
    /\ Len(trainer.seen) = 2

\* C19: with evaluation enabled the accuracy is evaluated after epoch ep
\* exactly when ep = 0, or (ep + 1) is a multiple of the cadence, or ep is
\* the last epoch, where a configured cadence below 1 counts as the epoch
\* count; so the last epoch is always evaluated and the loss kept for the
\* final report is the loss of the last epoch.
C19_EvaluationCadence ==
    (call.op = "train" /\ Self.evaluate_on_num_examples # 0)
    => LET epochs == Self.component_config.epochs
           configured == Self.component_config.evaluate_every_num_epochs
           cadence == IF configured < 1 THEN epochs ELSE configured
       IN /\ \A ep \in 0..(trainer.ep - 1) :
                (ep \in trainer.evals)
                <=> (ep = 0 \/ (ep + 1) % cadence = 0 \/ ep = epochs - 1)
          /\ trainer.evals \subseteq 0..(trainer.ep - 1)
          /\ trainer.ep = epochs
             => /\ (epochs - 1) \in trainer.evals
                /\ trainer.last_loss = Some(epochs - 1)

C19_Witness ==
    /\ call.op = "train"
    /\ Self.component_config.epochs = 3
    /\ Self.component_config.evaluate_every_num_epochs = 0
    /\ trainer.ep = 3
    /\ trainer.evals = {0, 2}
    /\ trainer.last_loss = Some(2)

\* C20: the accuracy _output_training_stat_dataset reports counts an example
\* as correct exactly when the candidate with the highest similarity has the
\* example's true intent, also when several examples of the slice share an
\* intent.
C20_AccuracyCountsTopIntent ==
    call.op = "_output_training_stat_dataset"
    => LET intents == Val(call.arg).intents
           train_sim == Val(call.arg).train_sim
       IN /\ Val(call.ret).of = Len(intents)
          /\ Val(call.ret).correct =
                Cardinality({i \in DOMAIN intents :
                                intents[ArgMax(train_sim[i])] = intents[i]})

\* C22: after train() has built its intent dictionary, inv_intent_dict maps
\* exactly the ids 0..n-1 one-to-one onto the n distinct training labels,
\* lower ids to labels earlier in sorted order, and row idx of
\* encoded_all_intents is the intent_features of the intent with id idx, or
\* row idx of the identity matrix when intent tokenization is off.
C22_IntentDictIsSortedBijection ==
    (call.op = "train" /\ NumIntents(Val(call.arg)) >= 2)
    => LET td == Val(call.arg)
           n == NumIntents(td)
           inv == Val(Self.inv_intent_dict)
           rows == Val(Self.encoded_all_intents)
       IN /\ DOMAIN inv = 0..(n - 1)
          /\ {inv[i] : i \in DOMAIN inv} = DistinctIntents(td.labels)
          /\ \A i, j \in DOMAIN inv :
                i < j => LabelRank[inv[i]] < LabelRank[inv[j]]
          /\ DOMAIN rows = 0..(n - 1)
          /\ \A i \in DOMAIN rows :
                IF Self.intent_tokenization_flag
                THEN rows[i] = IntentFeatures(inv[i], td.ydim)
                ELSE rows[i] = [j \in 0..(n - 1) |-> IF j = i THEN 1 ELSE 0]

C22_Witness ==
    /\ call.op = "train"
    /\ NumIntents(Val(call.arg)) = 3
    /\ Val(call.arg).labels[1] = "thanks"
    /\ Val(call.arg).labels[3] = "bye"
    /\ Val(Self.inv_intent_dict) = [i \in 0..2 |-> <<"bye", "greet", "thanks">>[i + 1]]
    /\ Self.intent_tokenization_flag
    /\ Val(Self.encoded_all_intents)[2] = IntentFeatures("thanks", Val(call.arg).ydim)

\* C24: in every training step the similarity matrix has num_neg + 1
\* columns per example, num_neg being the configured number of negatives
\* clamped to the number of intents minus one.
C24_NumNegCandidatesPerExample ==
    BatchDrawn
    => \A b \in DOMAIN trainer.batch :
          Len(trainer.tiled[b]) = Self.num_neg + 1

\* C28: in a train() call on at least 2 examples every epoch runs at least
\* one batch and no epoch ends in a division by zero batches, whatever the
\* batch size of the schedule and the architecture flags.
C28_EveryEpochRunsABatch ==
    (call.op = "train" /\ Len(Val(call.arg).labels) >= 2)
    => /\ call.outcome # "ZeroDivisionError"
       /\ \A i \in DOMAIN trainer.batches : trainer.batches[i].n_batches >= 1

\* the graph construction of train() raises nothing but the error of the
\* absent evaluation dataset
GraphBuildsWithoutEvaluation(self, td) ==
    /\ ~SharedFeaturesMismatch(self, td)
    /\ to_sparse_tensor_error(self) = "none"
    /\ rnn_embed_error(self.component_config,
                       self.component_config.hidden_layers_sizes_a) = "none"
    /\ rnn_embed_error(self.component_config,
                       self.component_config.hidden_layers_sizes_b) = "none"
    /\ tf_sim_error(self.component_config) = "none"

\* C29: with evaluate_on_num_examples = 0 a train() call on at least 2
\* intents builds the graph, opens the session and runs every epoch without
\* an evaluation step and without an error for the absent evaluation dataset.
C29_TrainsWithoutEvaluation ==
    (/\ TrainCallEnded
     /\ NumIntents(Val(call.arg)) >= 2
     /\ Self.evaluate_on_num_examples = 0
     /\ ~Self.component_config.fused_lstm
     /\ GraphBuildsWithoutEvaluation(Self, Val(call.arg)))
    => /\ call.outcome # "AttributeError"
       /\ ~IsNone(Self.graph)
       /\ ~IsNone(Self.session)
       /\ trainer.ep = Self.component_config.epochs
       /\ trainer.evals = {}

\* C30: a constructor call with gpu_lstm or transformer selected (and no
\* other configuration error) returns exactly when both hidden-layer lists
\* are non-empty with all sizes equal, and raises a configuration error for
\* any other list.
C30_GpuLayerListsNonEmptyAndEqual ==
    (/\ call.op = "__init__"
     /\ (Val(call.arg).gpu_lstm \/ Val(call.arg).transformer)
     /\ ~SharedSizesMismatch(Val(call.arg))
     /\ ~ArchFlagsConflict(Val(call.arg)))
    => LET c == Val(call.arg)
           usable(sizes) == Len(sizes) > 0 /\ ~SizesDiffer(sizes)
       IN IF usable(c.hidden_layers_sizes_a) /\ usable(c.hidden_layers_sizes_b)
          THEN call.outcome = "returned"
          ELSE call.outcome = "ValueError"

\* the similarity a confidence of the ranking was computed from
ConfidenceScore(conf) == conf.v

\* C25: process() of a message with a nonzero feature on a classifier that
\* holds a session returns a ranking of at most INTENT_RANKING_LENGTH
\* entries with non-increasing confidences, every entry naming an intent of
\* the dictionary, and the first entry equal to the intent of the message.
C25_RankingIsSortedAndBounded ==
    (/\ call.op = "process"
     /\ ~IsNone(Self.session)
     /\ AnyNonZero(Val(call.arg)))
    => /\ call.outcome = "returned"
       /\ ~IsNone(Val(call.ret).intent_ranking)
       /\ LET ranking == Val(Val(call.ret).intent_ranking)
              inv == Val(Self.inv_intent_dict)
          IN /\ Len(ranking) >= 1
             /\ Len(ranking) <= INTENT_RANKING_LENGTH
             /\ \A p \in 1..(Len(ranking) - 1) :
                   ConfidenceScore(ranking[p].confidence)
                       >= ConfidenceScore(ranking[p + 1].confidence)
             /\ \A p \in DOMAIN ranking :
                   \E i \in DOMAIN inv : ranking[p].name = Some(inv[i])
             /\ Val(call.ret).intent = Some(ranking[1])

\* C26: after a train() call that raised during graph construction or in
\* the middle of an epoch, the next persist() returns a null classifier_file
\* and writes nothing, and the next process() returns normally with the
\* null intent.
C26_FailedTrainLeavesUntrained ==
    [][(/\ call.op = "train"
        /\ ~trainer.running
        /\ call.outcome \notin {"returned", "SystemExit"})
       => /\ call'.op = "persist"
             => /\ Val(call'.ret).classifier_file = None
                /\ disk' = disk
          /\ call'.op = "process"
             => /\ call'.outcome = "returned"
                /\ Val(call'.ret).intent = Some(NullIntent)]_vars

\* C27: a train() call on fewer than 2 distinct intents returns and changes
\* no field of the classifier, also on an instance that holds the session
\* of an earlier training, and writes nothing.
C27_TooFewIntentsChangesNothing ==
    [][(/\ ~trainer.running
        /\ call'.op = "train"
        /\ NumIntents(Val(call'.arg)) < 2)
       => /\ clf' = clf
          /\ disk' = disk
          /\ call'.outcome = "returned"
          /\ ~trainer'.running]_vars

C27_Witness ==
    /\ call.op = "train"
    /\ NumIntents(Val(call.arg)) = 1
    /\ call.outcome = "returned"
    /\ ~IsNone(Self.session)
    /\ ~IsNone(Self.inv_intent_dict)
    /\ Cardinality(DOMAIN Val(Self.inv_intent_dict)) = 2

\* an accuracy evaluation ran at the end of the last epoch
EvalDrawn == call.op = "train" /\ trainer.eval_tiled # <<>>
EvalIntent(i) == LoopLabels[trainer.val_ids[i]]

\* C21 as stated: in every run of the similarity op, training step or
\* accuracy evaluation, candidate 0 of row i carries the true intent of row i
\* and no later candidate is the row itself.
C21_ColumnZeroIsOwnIntent ==
    /\ BatchDrawn
       => \A b \in DOMAIN trainer.batch :
             /\ RowIntent(trainer.tiled[b][1]) = RowIntent(b)
             /\ \A k \in 2..Len(trainer.tiled[b]) : trainer.tiled[b][k] # b
    /\ EvalDrawn
       => \A i \in DOMAIN trainer.val_ids :
             /\ EvalIntent(trainer.eval_tiled[i][1]) = EvalIntent(i)
             /\ \A k \in 2..Len(trainer.eval_tiled[i]) : trainer.eval_tiled[i][k] # i

\* C21 (amended): in every training step candidate 0 of row i is the row's
\* own intent and every later candidate is one of the negatives sampled for
\* the row; in an accuracy evaluation the candidates of every row are all
\* the rows of the evaluation batch in batch order, so that the own intent
\* of row i is candidate i.
C21_OwnIntentColumnByMode ==
    /\ BatchDrawn
       => \A b \in DOMAIN trainer.batch :
             /\ Len(trainer.tiled[b]) >= 1
             /\ trainer.tiled[b][1] = b
             /\ \A k \in 2..Len(trainer.tiled[b]) :
                   trainer.tiled[b][k] \in trainer.pool[b]
    /\ EvalDrawn
       => \A i \in DOMAIN trainer.val_ids :
             /\ Len(trainer.eval_tiled[i]) = Len(trainer.val_ids)
             /\ \A j \in DOMAIN trainer.val_ids : trainer.eval_tiled[i][j] = j

C21_Witness ==
    /\ BatchDrawn
    /\ Len(trainer.batch) = 2
    /\ trainer.tiled[2][1] = 2
    /\ EvalDrawn
    /\ Len(trainer.val_ids) = 2
    /\ EvalIntent(1) # EvalIntent(2)
    /\ trainer.eval_tiled[2] = <<1, 2>>

\* C23: for every message of real token rows followed by padding rows, the
\* real_length the training encoder derives is the number of real token
\* rows, also when a real token has only zero features, and `last` selects
\* exactly one position, that of the last real token.
C23_RealLengthCountsRealTokens ==
    call.op = "_create_tf_rnn_embed"
    => LET rows == Val(call.arg).rows
           seq_len == Val(call.arg).seq_len
       IN /\ Val(call.ret).real_length = Len(rows)
          /\ Val(call.ret).last = [t \in 1..seq_len |-> IF t = Len(rows) THEN 1 ELSE 0]

====
